---------------------------- MODULE Spec2Model ----------------------------
(***************************************************************************)
(* The notification delivery pipeline of the notification service:         *)
(*   - the record store (models/Notification.js, a mongoose model),        *)
(*   - the submission, mark-as-read and delete handlers (routes),          *)
(*   - the queue service (services/queueService.js, a Bull queue),         *)
(*   - the worker (services/notificationProcessor.js).                     *)
(*                                                                         *)
(* Every await of the source is a step of its own: a handler or a worker   *)
(* execution holds its mongoose document (a local copy of the record) from *)
(* one step to the next, and save() writes only the paths the holder       *)
(* modified.  The queue is Bull ("bull": "^4.11.4" in package.json); what  *)
(* the source asks of it (process(5, ...), add(..., {priority, attempts}), *)
(* job.retry(), the 'stalled' event) is modelled as Bull does it.          *)
(***************************************************************************)
EXTENDS Integers, Sequences, FiniteSets, TLC

\* ----------------------------------------------------------------- bounds
\* Number of records the store can hold (submissions of the largest runs).
NumNotifs == 6
\* Number of submissions (POST /notifications) of a run under faults.
Submissions == 1
\* Number of lock expiries (stalled-job recoveries) a run sees, and how many of
\* them leave the execution that lost the lock running.
MaxStalls == 2
MaxOverlaps == 1
\* Number of PATCH .../read requests, DELETE requests and retryFailedJob calls.
MaxReads == 1
MaxDeletes == 1
MaxRetries == 1
\* Number of submissions of the two-job runs, and of rejected submissions.
Pair == 2
MaxRejects == 2
\* Recipients of sendSMS: length of their first part, and of their run of digits.
MaxHead == 3
MaxDigits == 15
\* Messages of formatSMSMessage: how far their length goes beyond 0 and beyond
\* the limit, and the longest senderName and shortUrl tried.
MaxSlack == 3
MaxName == 2
MaxUrl == 2

\* -------------------------------------------------------- program constants
\* notificationQueue.process(5, processNotification)
Concurrency == 5
\* maxAttempts: { type: Number, default: 3 }
DefaultMaxAttempts == 3
\* Bull's maxStalledCount setting, left at its default by initQueue
MaxStalledCount == 1
\* backoff: { type: "exponential", delay: 2000 }
BackoffDelay == 2000
\* const maxLength = 1600; // SMS segment limit
maxLength == 1600

Ids == 1..NumNotifs

\* type: enum ["email", "sms", "in-app"]
Types == {"email", "sms", "in-app"}
\* a payload type outside the enum (the default branch of the worker's switch)
OtherType == "push"
\* priority: enum ["low", "medium", "high"]
Priorities == {"low", "medium", "high"}

\* const priorityMap = { low: 1, medium: 2, high: 3 }; priorityMap[priority] || 2
priorityMap(p) ==
    CASE p = "low" -> 1
      [] p = "medium" -> 2
      [] p = "high" -> 3
      [] OTHER -> 2

\* An error as the worker's catch sees it: its kind, and which invocation of
\* the sender raised it (0 when no sender raised it), so that the errors of
\* two attempts are two different messages.
NoError == [kind |-> "none", n |-> 0]
Err(k, n) == [kind |-> k, n |-> n]

VARIABLES
    notif,      \* the record store: notif[r] is record r
    hpc,        \* position of the submission handler that creates record r:
                \* none, enqueue, save, then done (201 queued), or noqueue or
                \* nosave (500, addToQueue or the second save threw)
    rpc,        \* a mark-as-read handler on record r: idle, or the status it loaded
    job,        \* the queue: job[j] is the job of record j
    exec,       \* the executions of processNotification in progress (worker slots)
    smsClient,  \* SMSService.client is set (Twilio credentials were given)
    sends,      \* sends[r]: invocations of a channel sender for r, so far
    oks,        \* oks[r]: of those, the ones that returned successfully
    runs,       \* runs[j]: executions of processNotification started for job j
    stalls, overlaps, reads, deletes, retries,  \* how many the run has seen
    rejected,   \* submissions answered 400 (validation failed), so far
    paused,     \* the queue is paused (pauseQueue without resumeQueue)
    sms,        \* a call of SMSService.sendSMS: the recipient it is given, a
                \* string as the sequence of its characters, and how it ends
    fmt,        \* a call of SMSService.formatSMSMessage: the message and the
                \* senderName and shortUrl of the metadata, strings as the
                \* sequences of their characters, and the body it returned
    sys         \* the process (running, terminating after SIGTERM, interrupted
                \* after SIGINT, exited) and its connections: the Bull queue
                \* (open, closing, closed) and the Redis client (open, closed)

vars == <<notif, hpc, rpc, job, exec, smsClient, sends, oks, runs,
          stalls, overlaps, reads, deletes, retries, rejected, paused, sys, sms,
          fmt>>

\* ------------------------------------------------------------ record store
\* A record that is not in the store.
NoNotif ==
    [exists |-> FALSE, type |-> "none", priority |-> "none", recipientOk |-> TRUE,
     realTime |-> "unset",
     status |-> "none", attempts |-> 0, maxAttempts |-> 0,
     sentAt |-> FALSE, failedAt |-> FALSE, errorMessage |-> NoError, jobId |-> 0]

\* new Notification({..., metadata, status: "pending"}) with the schema's
\* defaults; rt is the realTime entry of the metadata: unset, true or false.
NewNotification(t, p, ok, rt) ==
    [exists |-> TRUE, type |-> t, priority |-> p, recipientOk |-> ok,
     realTime |-> rt,
     status |-> "pending", attempts |-> 0, maxAttempts |-> DefaultMaxAttempts,
     sentAt |-> FALSE, failedAt |-> FALSE, errorMessage |-> NoError, jobId |-> 0]

\* this.status = s on a document loaded with status ls: the path is written
\* by save() only when the assignment changed it.
SetStatus(n, ls, s) == IF ls = s THEN n ELSE [n EXCEPT !.status = s]

\* markAsFailed(errorMessage) on a document loaded with status ls
markAsFailed(n, ls, e) ==
    [SetStatus(n, ls, "failed") EXCEPT !.failedAt = TRUE, !.errorMessage = e]

\* markAsSent() on a document loaded with status ls
markAsSent(n, ls) ==
    [SetStatus(n, ls, "sent") EXCEPT !.sentAt = TRUE]

\* incrementAttempts() on a document loaded with attempts la and status ls
incrementAttempts(n, la, ls) ==
    [SetStatus(n, ls, "processing") EXCEPT !.attempts = la + 1]

\* findByIdAndDelete: the record leaves the store; the inputs of its
\* submission stay with the handler and in the job's payload.
Deleted(n) ==
    [n EXCEPT !.exists = FALSE, !.status = "none", !.attempts = 0,
              !.sentAt = FALSE, !.failedAt = FALSE, !.errorMessage = NoError,
              !.jobId = 0]

\* ------------------------------------------------------------------- queue
NoJob ==
    [state |-> "none", type |-> "none", priority |-> 0, attempts |-> 0,
     attemptsMade |-> 0, stalledCount |-> 0, delay |-> 0]

\* notificationQueue.add("send-notification", {notificationId, type, ...},
\*                       {priority: priorityMap[priority] || 2, delay: 0,
\*                        attempts: maxAttempts})
NewJob(t, p, maxAttempts) ==
    [state |-> "waiting", type |-> t, priority |-> priorityMap(p),
     attempts |-> maxAttempts, attemptsMade |-> 0, stalledCount |-> 0, delay |-> 0]

\* An execution of processNotification(job): the job, which execution of the
\* job it is, where it stands, job.attemptsMade as dequeued, the attempts and
\* status of the document it holds, the error it caught, what it returns,
\* whether it still holds the job's lock, and what became of the in-app
\* broadcast (none attempted, true or false returned by broadcastToUser).
NewExec(j, g, am) ==
    [job |-> j, gen |-> g, pc |-> "find", amade |-> am, la |-> 0, ls |-> "none",
     err |-> NoError, res |-> "none", locked |-> TRUE, cast |-> "none"]

\* createInAppNotification reads the document's metadata, a mongoose Map
\* (metadata: { type: Map }), as metadata.realTime: a property of the Map
\* object, which is undefined whatever the map's realTime entry is.
realTimeRead(n) == "undefined"

\* if (metadata.realTime !== false) await this.broadcastToUser(...):
\* broadcastToUser returns true, or catches its error and returns false.
Broadcasts(n) ==
    IF realTimeRead(n) # "false" THEN {"true", "false"} ELSE {"none"}

\* The senders behind the switch of processNotification, by what they answer:
\*   sendEmail: throws when the transporter is missing or sendMail rejects;
\*   sendSMS: throws without a client, throws on a recipient that fails
\*            isValidPhoneNumber, throws when messages.create rejects;
\*   createInAppNotification: formats and returns (broadcastToUser swallows).
SenderOutcomes(t, recipientOk) ==
    CASE t = "email" -> {"ok", "TransportError"}
      [] t = "sms" -> IF ~smsClient THEN {"NotInitialized"}
                      ELSE IF ~recipientOk THEN {"InvalidPhone"}
                      ELSE {"ok", "TransportError"}
      [] t = "in-app" -> {"ok"}

\* ------------------------------------------------------------- SMSService
\* The characters of the recipients tried: a recipient is up to MaxHead of
\* Chars, then up to MaxDigits times the digit "5", then at most one of Chars.
Chars == {"+", "0", "1", "a"}
Digits == {"0", "1", "2", "3", "4", "5", "6", "7", "8", "9"}

Heads == UNION {[1..n -> Chars] : n \in 0..MaxHead}
Filler(k) == [i \in 1..k |-> "5"]
Tails == {<<>>} \cup {<<c>> : c \in Chars}
Recipients == {h \o Filler(k) \o t : h \in Heads, k \in 0..MaxDigits, t \in Tails}

\* A validator that takes a single digit after the "+": /^\+[1-9]\d{0,14}$/
isValidPhoneNumberOneDigit(s) ==
    /\ Len(s) >= 2
    /\ s[1] = "+"
    /\ s[2] \in Digits \ {"0"}
    /\ Len(s) - 2 \in 0..14
    /\ \A i \in 3..Len(s) : s[i] \in Digits

\* isValidPhoneNumber(phoneNumber): /^\+[1-9]\d{1,14}$/.test(phoneNumber):
\* a "+", one of 1..9, then 1 to 14 digits, and nothing else.
isValidPhoneNumber(s) ==
    /\ Len(s) >= 2
    /\ s[1] = "+"
    /\ s[2] \in Digits \ {"0"}
    /\ Len(s) - 2 \in 1..14
    /\ \A i \in 3..Len(s) : s[i] \in Digits

\* No call of sendSMS.
NoSms == [recipient |-> <<>>, result |-> "none"]

\* sendSMS(notification): throws without a client, throws on a recipient
\* that fails isValidPhoneNumber, else calls client.messages.create.
sendSMS ==
    /\ sms.result = "none"
    /\ sms' = [sms EXCEPT !.result =
                  IF ~smsClient THEN "NotInitialized"
                  ELSE IF ~isValidPhoneNumber(sms.recipient) THEN "InvalidPhone"
                  ELSE "create"]
    /\ UNCHANGED <<notif, hpc, rpc, job, exec, smsClient, sends, oks, runs,
                   stalls, overlaps, reads, deletes, retries, rejected, paused, sys, fmt>>

\* The messages tried: the n-th character of a message tells its place
\* (modulo 5), so that two cuts of a message differ; their lengths are
\* 0..MaxSlack and the lengths around maxLength that a prefix and a suffix
\* bring to either side of it.
Letters == <<"a", "b", "c", "d", "e">>
Message(n) == [i \in 1..n |-> Letters[(i % 5) + 1]]
MessageLengths ==
    (0..MaxSlack) \cup ((maxLength - MaxName - MaxUrl - 5)..(maxLength + MaxSlack))
Messages == {Message(n) : n \in MessageLengths}
\* metadata.senderName and metadata.shortUrl: a missing one and an empty one
\* are both falsy, and are the empty sequence here.
SenderNames == {[i \in 1..n |-> "S"] : n \in 0..MaxName}
ShortUrls == {[i \in 1..n |-> "u"] : n \in 0..MaxUrl}

\* `${metadata.senderName}: ${message}` if (metadata.senderName);
\* += `\n\n${metadata.shortUrl}` if (metadata.shortUrl)
composed(message, senderName, shortUrl) ==
    LET prefixed == IF senderName # <<>>
                    THEN senderName \o <<":", " ">> \o message
                    ELSE message
    IN  IF shortUrl # <<>> THEN prefixed \o <<"\n", "\n">> \o shortUrl ELSE prefixed

\* A formatter that cuts at maxLength and then appends the marker.
formatSMSMessageCutAtMax(message, senderName, shortUrl) ==
    LET formattedMessage == composed(message, senderName, shortUrl) IN
    IF Len(formattedMessage) > maxLength
    THEN SubSeq(formattedMessage, 1, maxLength) \o <<".", ".", ".">>
    ELSE formattedMessage

\* formatSMSMessage(message, metadata): if (formattedMessage.length >
\* maxLength) formattedMessage = formattedMessage.substring(0, maxLength - 3)
\* + "..."; return formattedMessage
formatSMSMessage(message, senderName, shortUrl) ==
    LET formattedMessage == composed(message, senderName, shortUrl) IN
    IF Len(formattedMessage) > maxLength
    THEN SubSeq(formattedMessage, 1, maxLength - 3) \o <<".", ".", ".">>
    ELSE formattedMessage

\* No call of formatSMSMessage.
NoFormat ==
    [message |-> <<>>, senderName |-> <<>>, shortUrl |-> <<>>,
     returned |-> FALSE, body |-> <<>>]

\* body: this.formatSMSMessage(message, metadata)
formatSMS ==
    /\ ~fmt.returned
    /\ fmt' = [fmt EXCEPT !.returned = TRUE,
                          !.body = formatSMSMessage(fmt.message, fmt.senderName,
                                                    fmt.shortUrl)]
    /\ UNCHANGED <<notif, hpc, rpc, job, exec, smsClient, sends, oks, runs,
                   stalls, overlaps, reads, deletes, retries, rejected, paused,
                   sys, sms>>

\* ----------------------------------------------------------------- Init
\* The service after construction: an empty store and an empty queue.
InitPipeline ==
    /\ notif = [r \in Ids |-> NoNotif]
    /\ hpc = [r \in Ids |-> "none"]
    /\ rpc = [r \in Ids |-> "idle"]
    /\ job = [j \in Ids |-> NoJob]
    /\ exec = {}
    /\ smsClient \in BOOLEAN
    /\ sends = [r \in Ids |-> 0]
    /\ oks = [r \in Ids |-> 0]
    /\ runs = [j \in Ids |-> 0]
    /\ stalls = 0
    /\ overlaps = 0
    /\ reads = 0
    /\ deletes = 0
    /\ retries = 0
    /\ rejected = 0
    /\ paused = FALSE
    /\ sys = [proc |-> "running", queue |-> "open", redis |-> "open"]

Init == InitPipeline /\ sms = NoSms /\ fmt = NoFormat

\* sendSMS is called with any of the recipients.
InitSms ==
    /\ InitPipeline
    /\ sms \in [recipient : Recipients, result : {"none"}]
    /\ fmt = NoFormat

\* formatSMSMessage is called with any of the messages and of the metadata.
InitFormat ==
    /\ InitPipeline
    /\ sms = NoSms
    /\ fmt \in [message : Messages, senderName : SenderNames, shortUrl : ShortUrls,
                 returned : {FALSE}, body : {<<>>}]

\* ------------------------------------------------- POST /notifications
\* The number of submissions so far; the store gives the next record the
\* next id.
Submitted == Cardinality({r \in Ids : hpc[r] # "none"})

\* Validation passed: new Notification({...}); await notification.save()
PostCreate(t, p, ok, rt) ==
    /\ Submitted < NumNotifs
    /\ notif' = [notif EXCEPT ![Submitted + 1] = NewNotification(t, p, ok, rt)]
    /\ hpc' = [hpc EXCEPT ![Submitted + 1] = "enqueue"]
    /\ UNCHANGED <<rpc, job, exec, smsClient, sends, oks, runs,
                   stalls, overlaps, reads, deletes, retries, rejected, paused, sys, sms, fmt>>

\* A request body, by what validateNotification and the handler read of it:
\* whether userId, message, subject are given; the type; the recipient
\* (none, one the channel accepts, one isValidPhoneNumber rejects); the
\* priority, if any (one of the enum, one outside it); the metadata, if any
\* (something that is not an object).
Bodies ==
    [userId : BOOLEAN, message : BOOLEAN, subject : BOOLEAN,
     type : Types \cup {OtherType},
     recipient : {"", "valid", "invalid"},
     priority : {"absent", "high", "urgent"},
     metadata : {"absent", "string"}]

\* A validator that does not look at the subject.
validationErrorsNoSubject(b) ==
    {f \in {"userId", "type", "message", "recipient", "priority", "metadata"} :
        \/ f = "userId" /\ ~b.userId
        \/ f = "type" /\ b.type \notin Types
        \/ f = "message" /\ ~b.message
        \/ f = "recipient" /\ b.type \in {"email", "sms"} /\ b.recipient = ""
        \/ f = "priority" /\ b.priority # "absent" /\ b.priority \notin Priorities
        \/ f = "metadata" /\ b.metadata = "string"}

\* validateNotification; validationResult(req): the fields that fail
validationErrors(b) ==
    {f \in {"userId", "type", "message", "subject", "recipient", "priority", "metadata"} :
        \/ f = "userId" /\ ~b.userId
        \/ f = "type" /\ b.type \notin Types
        \/ f = "message" /\ ~b.message
        \/ f = "subject" /\ b.type = "email" /\ ~b.subject
        \/ f = "recipient" /\ b.type \in {"email", "sms"} /\ b.recipient = ""
        \/ f = "priority" /\ b.priority # "absent" /\ b.priority \notin Priorities
        \/ f = "metadata" /\ b.metadata = "string"}

\* router.post("/", validateNotification, ...): 400 when validation failed,
\* else the record is created from the body (priority = "medium" by default)
\* and saved.
PostBody(b) ==
    IF validationErrors(b) # {}
    THEN /\ rejected < MaxRejects
         /\ rejected' = rejected + 1
         /\ UNCHANGED <<notif, hpc, rpc, job, exec, smsClient, sends, oks, runs,
                        stalls, overlaps, reads, deletes, retries, paused, sys, sms, fmt>>
    ELSE PostCreate(b.type,
                    IF b.priority = "absent" THEN "medium" ELSE b.priority,
                    b.type = "sms" => b.recipient = "valid",
                    "unset")

\* addToQueue(notification, priority): the payload and the options are taken
\* from the handler's document; t is the payload's type.
addToQueue(r, t) ==
    /\ hpc[r] = "enqueue"
    /\ job' = [job EXCEPT ![r] = NewJob(t, notif[r].priority, DefaultMaxAttempts)]
    /\ hpc' = [hpc EXCEPT ![r] = "save"]
    /\ UNCHANGED <<notif, rpc, exec, smsClient, sends, oks, runs,
                   stalls, overlaps, reads, deletes, retries, rejected, paused, sys, sms, fmt>>

\* const job = await addToQueue(notification, priority)
PostEnqueue(r) == addToQueue(r, notif[r].type)

\* A handler that answers 500 after addToQueue threw, having stored queued.
PostEnqueueFailsQueued(r) ==
    /\ hpc[r] = "enqueue"
    /\ hpc' = [hpc EXCEPT ![r] = "noqueue"]
    /\ notif' = [notif EXCEPT ![r].status = "queued"]
    /\ UNCHANGED <<rpc, job, exec, smsClient, sends, oks, runs,
                   stalls, overlaps, reads, deletes, retries, rejected, paused, sys, sms, fmt>>

\* notificationQueue.add rejects (the queue cannot take the job): addToQueue
\* logs and rethrows, the handler's catch answers 500; no job was added and
\* the handler writes nothing more.
PostEnqueueFails(r) ==
    /\ hpc[r] = "enqueue"
    /\ hpc' = [hpc EXCEPT ![r] = "noqueue"]
    /\ UNCHANGED <<notif, rpc, job, exec, smsClient, sends, oks, runs,
                   stalls, overlaps, reads, deletes, retries, rejected, paused, sys, sms, fmt>>

\* notification.jobId = job.id; notification.status = "queued";
\* await notification.save()  (the document was created with status pending;
\* save() of a document that left the store throws, and the handler answers 500)
PostSave(r) ==
    /\ hpc[r] = "save"
    /\ notif' = [notif EXCEPT ![r] =
                    IF notif[r].exists
                    THEN [SetStatus(notif[r], "pending", "queued") EXCEPT !.jobId = r]
                    ELSE notif[r]]
    /\ hpc' = [hpc EXCEPT ![r] = IF notif[r].exists THEN "done" ELSE "nosave"]
    /\ UNCHANGED <<rpc, job, exec, smsClient, sends, oks, runs,
                   stalls, overlaps, reads, deletes, retries, rejected, paused, sys, sms, fmt>>

\* ------------------------- PATCH /users/:id/notifications/:notificationId/read
\* Notification.findOne({_id, userId, type: "in-app"})
MarkReadFind(r) ==
    /\ reads < MaxReads
    /\ rpc[r] = "idle"
    /\ notif[r].exists
    /\ notif[r].type = "in-app"
    /\ rpc' = [rpc EXCEPT ![r] = notif[r].status]
    /\ reads' = reads + 1
    /\ UNCHANGED <<notif, hpc, job, exec, smsClient, sends, oks, runs,
                   stalls, overlaps, deletes, retries, rejected, paused, sys, sms, fmt>>

\* await notification.markAsSent()
MarkReadSave(r) ==
    /\ rpc[r] # "idle"
    /\ notif' = [notif EXCEPT ![r] =
                    IF notif[r].exists THEN markAsSent(notif[r], rpc[r]) ELSE notif[r]]
    /\ rpc' = [rpc EXCEPT ![r] = "idle"]
    /\ UNCHANGED <<hpc, job, exec, smsClient, sends, oks, runs,
                   stalls, overlaps, reads, deletes, retries, rejected, paused, sys, sms, fmt>>

\* ------------------------------------------------ DELETE /notifications/:id
\* Notification.findByIdAndDelete(id); the job of the record is left alone.
Delete(r) ==
    /\ deletes < MaxDeletes
    /\ notif[r].exists
    /\ notif' = [notif EXCEPT ![r] = Deleted(notif[r])]
    /\ deletes' = deletes + 1
    /\ UNCHANGED <<hpc, rpc, job, exec, smsClient, sends, oks, runs,
                   stalls, overlaps, reads, retries, rejected, paused, sys, sms, fmt>>

\* ------------------------------------------------------------ the queue
\* Bull serves the waiting job with the smallest priority number first
\* (1 is the highest priority).  A job that stalled went back to the head of
\* the wait list whatever its priority, so it is not held to that order.
Served(j) ==
    \/ job[j].stalledCount > 0
    \/ \A k \in Ids :
          (job[k].state = "waiting" /\ job[k].stalledCount = 0)
              => job[k].priority >= job[j].priority

\* A queue that hands out a job whatever slot holds it already.
MayDequeueHeld(j) == job[j].state \in {"waiting", "active"} /\ Served(j)

\* A queue that hands out waiting jobs whether it is paused or not.
MayDequeueWhilePaused(j) == job[j].state = "waiting" /\ Served(j)

\* A job may be handed to a worker: the queue is not paused, the job is
\* waiting, and it is its turn.
MayDequeue(j) == ~paused /\ job[j].state = "waiting" /\ Served(j)

\* A pool that always has one more slot.
SlotAlwaysFree == TRUE

\* process(5, ...): one of the 5 slots is not executing a job.
SlotFree == Cardinality(exec) < Concurrency

\* notificationQueue.process(5, processNotification): a free slot takes the
\* next waiting job, which becomes active and locked by that slot.
Dequeue(j) ==
    /\ MayDequeue(j)
    /\ SlotFree
    /\ job' = [job EXCEPT ![j].state = "active"]
    /\ exec' = exec \cup {NewExec(j, runs[j] + 1, job[j].attemptsMade)}
    /\ runs' = [runs EXCEPT ![j] = @ + 1]
    /\ UNCHANGED <<notif, hpc, rpc, smsClient, sends, oks,
                   stalls, overlaps, reads, deletes, retries, rejected, paused, sys, sms, fmt>>

\* ----------------------------------------------------- processNotification
\* Execution e takes a step and becomes f.
Step(e, f) == exec' = (exec \ {e}) \cup {f}

\* A worker that does not look at the status of the record it found.
WFindAnyStatus(e) ==
    LET r == e.job IN
    /\ e.pc = "find"
    /\ Step(e, IF ~notif[r].exists
               THEN [e EXCEPT !.pc = "catchFind", !.err = Err("NotFound", 0)]
               ELSE [e EXCEPT !.pc = "incr", !.la = notif[r].attempts,
                              !.ls = notif[r].status])
    /\ UNCHANGED <<notif, hpc, rpc, job, smsClient, sends, oks, runs,
                   stalls, overlaps, reads, deletes, retries, rejected, paused, sys, sms, fmt>>

\* const notification = await Notification.findById(notificationId);
\* if (!notification) throw ...; if (notification.status === "sent") return ...
WFind(e) ==
    LET r == e.job IN
    /\ e.pc = "find"
    /\ Step(e, IF ~notif[r].exists
               THEN [e EXCEPT !.pc = "catchFind", !.err = Err("NotFound", 0)]
               ELSE IF notif[r].status = "sent"
               THEN [e EXCEPT !.pc = "complete", !.res = "already_sent"]
               ELSE [e EXCEPT !.pc = "incr", !.la = notif[r].attempts,
                              !.ls = notif[r].status])
    /\ UNCHANGED <<notif, hpc, rpc, job, smsClient, sends, oks, runs,
                   stalls, overlaps, reads, deletes, retries, rejected, paused, sys, sms, fmt>>

\* await notification.incrementAttempts()
WIncr(e) ==
    LET r == e.job IN
    /\ e.pc = "incr"
    /\ IF notif[r].exists
       THEN /\ notif' = [notif EXCEPT ![r] = incrementAttempts(@, e.la, e.ls)]
            /\ Step(e, [e EXCEPT !.pc = "send", !.la = @ + 1, !.ls = "processing"])
       ELSE /\ notif' = notif
            /\ Step(e, [e EXCEPT !.pc = "catchFind",
                                 !.err = Err("DocumentNotFound", 0)])
    /\ UNCHANGED <<hpc, rpc, job, smsClient, sends, oks, runs,
                   stalls, overlaps, reads, deletes, retries, rejected, paused, sys, sms, fmt>>

\* switch (type) { case "email": ...; case "sms": ...; case "in-app": ...;
\*                 default: throw new Error(`Unknown notification type`) }
\* The type is the payload's (job.data.type); the sender reads the document.
WSend(e) ==
    LET r == e.job IN
    /\ e.pc = "send"
    /\ IF job[r].type \in Types
       THEN \E o \in SenderOutcomes(job[r].type, notif[r].recipientOk),
               c \in IF job[r].type = "in-app" THEN Broadcasts(notif[r]) ELSE {"none"} :
               /\ sends' = [sends EXCEPT ![r] = @ + 1]
               /\ oks' = [oks EXCEPT ![r] = IF o = "ok" THEN @ + 1 ELSE @]
               /\ Step(e, IF o = "ok"
                          THEN [e EXCEPT !.pc = "mark", !.cast = c]
                          ELSE [e EXCEPT !.pc = "catchFind",
                                         !.err = Err(o, sends[r] + 1)])
       ELSE /\ Step(e, [e EXCEPT !.pc = "catchFind", !.err = Err("UnknownType", 0)])
            /\ UNCHANGED <<sends, oks, rejected, paused>>
    /\ UNCHANGED <<notif, hpc, rpc, job, smsClient, runs,
                   stalls, overlaps, reads, deletes, retries, rejected, paused, sys, sms, fmt>>

\* await notification.markAsSent(); return { status: "sent", ... }
WMark(e) ==
    LET r == e.job IN
    /\ e.pc = "mark"
    /\ IF notif[r].exists
       THEN /\ notif' = [notif EXCEPT ![r] = markAsSent(@, e.ls)]
            /\ Step(e, [e EXCEPT !.pc = "complete", !.res = "sent", !.ls = "sent"])
       ELSE /\ notif' = notif
            /\ Step(e, [e EXCEPT !.pc = "catchFind",
                                 !.err = Err("DocumentNotFound", 0)])
    /\ UNCHANGED <<hpc, rpc, job, smsClient, sends, oks, runs,
                   stalls, overlaps, reads, deletes, retries, rejected, paused, sys, sms, fmt>>

\* job.attemptsMade + 1 >= job.opts.attempts, on the job as it was dequeued
FinalAttempt(amade, attempts) == amade + 1 >= attempts

\* catch: const notification = await Notification.findById(notificationId);
\* if (notification && job.attemptsMade + 1 >= job.opts.attempts) ...
WCatchFind(e) ==
    LET r == e.job IN
    /\ e.pc = "catchFind"
    /\ Step(e, IF notif[r].exists /\ FinalAttempt(e.amade, job[r].attempts)
               THEN [e EXCEPT !.pc = "catchMark", !.ls = notif[r].status]
               ELSE [e EXCEPT !.pc = "fail"])
    /\ UNCHANGED <<notif, hpc, rpc, job, smsClient, sends, oks, runs,
                   stalls, overlaps, reads, deletes, retries, rejected, paused, sys, sms, fmt>>

\* await notification.markAsFailed(error.message); a failure of this write
\* is caught and logged; then: throw error
WCatchMark(e) ==
    LET r == e.job IN
    /\ e.pc = "catchMark"
    /\ notif' = [notif EXCEPT ![r] =
                    IF notif[r].exists THEN markAsFailed(@, e.ls, e.err) ELSE @]
    /\ Step(e, [e EXCEPT !.pc = "fail"])
    /\ UNCHANGED <<hpc, rpc, job, smsClient, sends, oks, runs,
                   stalls, overlaps, reads, deletes, retries, rejected, paused, sys, sms, fmt>>

\* The handler returned: Bull moves the job to completed, if the slot still
\* holds the job's lock (otherwise the move is refused), and frees the slot.
WComplete(e) ==
    /\ e.pc = "complete"
    /\ job' = IF e.locked THEN [job EXCEPT ![e.job].state = "completed"] ELSE job
    /\ exec' = exec \ {e}
    /\ UNCHANGED <<notif, hpc, rpc, smsClient, sends, oks, runs,
                   stalls, overlaps, reads, deletes, retries, rejected, paused, sys, sms, fmt>>

\* 2^n
RECURSIVE Pow2(_)
Pow2(n) == IF n = 0 THEN 1 ELSE 2 * Pow2(n - 1)

\* Bull's exponential backoff strategy, on the number of failures counted so
\* far, this one included: Math.round((Math.pow(2, attemptsMade) - 1) * delay)
backoff(attemptsMade) == (Pow2(attemptsMade) - 1) * BackoffDelay

\* Bull's fail path for a job with attemptsMade failures so far: one more is
\* counted; below opts.attempts the job is delayed by the backoff of that
\* count, else it is failed.
AfterFailure(jb) ==
    IF jb.attemptsMade + 1 < jb.attempts
    THEN [jb EXCEPT !.attemptsMade = @ + 1, !.state = "delayed",
                    !.delay = backoff(jb.attemptsMade + 1)]
    ELSE [jb EXCEPT !.attemptsMade = @ + 1, !.state = "failed"]

\* The handler threw: Bull's fail path, if the slot still holds the lock.
WFail(e) ==
    /\ e.pc = "fail"
    /\ job' = IF e.locked THEN [job EXCEPT ![e.job] = AfterFailure(@)] ELSE job
    /\ exec' = exec \ {e}
    /\ UNCHANGED <<notif, hpc, rpc, smsClient, sends, oks, runs,
                   stalls, overlaps, reads, deletes, retries, rejected, paused, sys, sms, fmt>>

\* The backoff delay of a delayed job has elapsed.
DelayElapsed(j) ==
    /\ job[j].state = "delayed"
    /\ job' = [job EXCEPT ![j].state = "waiting"]
    /\ UNCHANGED <<notif, hpc, rpc, exec, smsClient, sends, oks, runs,
                   stalls, overlaps, reads, deletes, retries, rejected, paused, sys, sms, fmt>>

\* Bull's answer to a stall of a job that stalled stalledCount times before:
\* back to waiting, or failed beyond maxStalledCount.
AfterStall(jb) ==
    [jb EXCEPT !.stalledCount = @ + 1,
               !.state = IF jb.stalledCount + 1 > MaxStalledCount
                         THEN "failed" ELSE "waiting"]

\* notificationQueue.on("stalled", ...): the lock of an active job expired.
\* Either its worker died (alive = FALSE: the execution is gone), or the
\* worker could not renew the lock in time and the execution goes on
\* without it (alive = TRUE).
Stalled(j, alive) ==
    /\ stalls < MaxStalls
    /\ alive => overlaps < MaxOverlaps
    /\ job[j].state = "active"
    /\ job' = [job EXCEPT ![j] = AfterStall(@)]
    /\ exec' = {e \in exec : e.job # j \/ ~e.locked}
                  \cup (IF alive
                        THEN {[e EXCEPT !.locked = FALSE] : e \in {x \in exec : x.job = j /\ x.locked}}
                        ELSE {})
    /\ stalls' = stalls + 1
    /\ overlaps' = IF alive THEN overlaps + 1 ELSE overlaps
    /\ UNCHANGED <<notif, hpc, rpc, smsClient, sends, oks, runs,
                   reads, deletes, retries, rejected, paused, sys, sms, fmt>>

\* A retryFailedJob that does not look at the attempts.
retryResultAnyBudget(j) ==
    IF job[j].state = "none" THEN "false"
    ELSE IF job[j].state = "failed" THEN "true" ELSE "throws"

\* What retryFailedJob(jobId) answers: const job = await getJob(jobId);
\* if (job && job.opts.attempts > job.attemptsMade) { await job.retry();
\* return true } return false  (job.retry() throws for a job that is not in
\* the failed state, and retryFailedJob rethrows)
retryResult(j) ==
    IF job[j].state # "none" /\ job[j].attempts > job[j].attemptsMade
    THEN IF job[j].state = "failed" THEN "true" ELSE "throws"
    ELSE "false"

\* retryFailedJob(jobId) where it changes something: job.retry() moves the
\* failed job to waiting.
retryFailedJob(j) ==
    /\ retries < MaxRetries
    /\ retryResult(j) = "true"
    /\ job' = [job EXCEPT ![j].state = "waiting"]
    /\ retries' = retries + 1
    /\ UNCHANGED <<notif, hpc, rpc, exec, smsClient, sends, oks, runs,
                   stalls, overlaps, reads, deletes, rejected, paused, sys, sms, fmt>>

\* pauseQueue(): await notificationQueue.pause().  The queue stops handing
\* out jobs; jobs and executions are left as they are.
pauseQueue ==
    /\ ~paused
    /\ paused' = TRUE
    /\ UNCHANGED <<notif, hpc, rpc, job, exec, smsClient, sends, oks, runs,
                   stalls, overlaps, reads, deletes, retries, rejected, sys, sms, fmt>>

\* resumeQueue(): await notificationQueue.resume()
resumeQueue ==
    /\ paused
    /\ paused' = FALSE
    /\ UNCHANGED <<notif, hpc, rpc, job, exec, smsClient, sends, oks, runs,
                   stalls, overlaps, reads, deletes, retries, rejected, sys, sms, fmt>>

\* ------------------------------------------------- the store is unavailable
\* A read or a write of the store rejects (the connection is down, the write
\* times out): the await throws, and the store is left as it was.
\* findById rejects: the try block throws before it holds a document.
WFindFails(e) ==
    /\ e.pc = "find"
    /\ Step(e, [e EXCEPT !.pc = "catchFind", !.err = Err("StoreError", 0)])
    /\ UNCHANGED <<notif, hpc, rpc, job, smsClient, sends, oks, runs,
                   stalls, overlaps, reads, deletes, retries, rejected, paused, sys, sms, fmt>>

\* incrementAttempts() rejects: nothing was written, no sender is invoked.
WIncrFails(e) ==
    /\ e.pc = "incr"
    /\ Step(e, [e EXCEPT !.pc = "catchFind", !.err = Err("StoreError", 0)])
    /\ UNCHANGED <<notif, hpc, rpc, job, smsClient, sends, oks, runs,
                   stalls, overlaps, reads, deletes, retries, rejected, paused, sys, sms, fmt>>

\* markAsSent() rejects after the sender returned.
WMarkFails(e) ==
    /\ e.pc = "mark"
    /\ Step(e, [e EXCEPT !.pc = "catchFind", !.err = Err("StoreError", 0)])
    /\ UNCHANGED <<notif, hpc, rpc, job, smsClient, sends, oks, runs,
                   stalls, overlaps, reads, deletes, retries, rejected, paused, sys, sms, fmt>>

\* catch: findById rejects; the inner catch logs updateError; throw error
WCatchFindFails(e) ==
    /\ e.pc = "catchFind"
    /\ Step(e, [e EXCEPT !.pc = "fail"])
    /\ UNCHANGED <<notif, hpc, rpc, job, smsClient, sends, oks, runs,
                   stalls, overlaps, reads, deletes, retries, rejected, paused, sys, sms, fmt>>

\* A catch block that returns when its own update failed, without rethrowing.
WCatchMarkFailsSwallows(e) ==
    /\ e.pc = "catchMark"
    /\ Step(e, [e EXCEPT !.pc = "complete"])
    /\ UNCHANGED <<notif, hpc, rpc, job, smsClient, sends, oks, runs,
                   stalls, overlaps, reads, deletes, retries, rejected, paused, sys, sms, fmt>>

\* catch: markAsFailed() rejects; the inner catch logs updateError; throw error
WCatchMarkFails(e) ==
    /\ e.pc = "catchMark"
    /\ Step(e, [e EXCEPT !.pc = "fail"])
    /\ UNCHANGED <<notif, hpc, rpc, job, smsClient, sends, oks, runs,
                   stalls, overlaps, reads, deletes, retries, rejected, paused, sys, sms, fmt>>

\* A step of an execution whose store operation rejects.
WorkerStoreFails(e) ==
    \/ WFindFails(e) \/ WIncrFails(e) \/ WMarkFails(e)
    \/ WCatchFindFails(e) \/ WCatchMarkFails(e)

\* ----------------------------------------------------- process termination
\* No submission handler and no mark-as-read handler is in progress: the HTTP
\* server has no request left to answer.
NoRequest ==
    \A r \in Ids : hpc[r] \notin {"enqueue", "save"} /\ rpc[r] = "idle"

\* process.on("SIGTERM", () => { server.close(() => { process.exit(0) }) })
Sigterm ==
    /\ sys.proc = "running"
    /\ sys' = [sys EXCEPT !.proc = "terminating"]
    /\ UNCHANGED <<notif, hpc, rpc, job, exec, smsClient, sends, oks, runs,
                   stalls, overlaps, reads, deletes, retries, rejected, paused, sms, fmt>>

\* SIGINT has two listeners: connectDB's (await mongoose.connection.close();
\* process.exit(0)) and startServer's (server.close(() => process.exit(0))).
Sigint ==
    /\ sys.proc = "running"
    /\ sys' = [sys EXCEPT !.proc = "interrupted"]
    /\ UNCHANGED <<notif, hpc, rpc, job, exec, smsClient, sends, oks, runs,
                   stalls, overlaps, reads, deletes, retries, rejected, paused, sms, fmt>>

\* process.exit(0): the executions of this process are gone; their jobs stay
\* as the queue holds them, and no connection is closed.
Exit ==
    /\ sys' = [sys EXCEPT !.proc = "exited"]
    /\ exec' = {}
    /\ UNCHANGED <<notif, hpc, rpc, job, smsClient, sends, oks, runs,
                   stalls, overlaps, reads, deletes, retries, rejected, paused, sms, fmt>>

\* The callback of server.close: the server has answered its last request.
ServerClosed ==
    /\ sys.proc \in {"terminating", "interrupted"}
    /\ NoRequest
    /\ Exit

\* connectDB's SIGINT listener: mongoose.connection.close() has resolved.
DbClosed ==
    /\ sys.proc = "interrupted"
    /\ Exit

\* shutdownQueue(): await notificationQueue.close() is called; the queue
\* takes no more jobs and waits for the jobs its workers are executing.
shutdownQueue ==
    /\ sys.proc # "exited"
    /\ sys.queue = "open"
    /\ sys' = [sys EXCEPT !.queue = "closing"]
    /\ UNCHANGED <<notif, hpc, rpc, job, exec, smsClient, sends, oks, runs,
                   stalls, overlaps, reads, deletes, retries, rejected, paused, sms, fmt>>

\* notificationQueue.close() resolves: no execution is in progress.
QueueClosed ==
    /\ sys.proc # "exited"
    /\ sys.queue = "closing"
    /\ exec = {}
    /\ sys' = [sys EXCEPT !.queue = "closed"]
    /\ UNCHANGED <<notif, hpc, rpc, job, exec, smsClient, sends, oks, runs,
                   stalls, overlaps, reads, deletes, retries, rejected, paused, sms, fmt>>

\* await redisClient.disconnect(), after the queue was closed
RedisDisconnect ==
    /\ sys.proc # "exited"
    /\ sys.queue = "closed"
    /\ sys.redis = "open"
    /\ sys' = [sys EXCEPT !.redis = "closed"]
    /\ UNCHANGED <<notif, hpc, rpc, job, exec, smsClient, sends, oks, runs,
                   stalls, overlaps, reads, deletes, retries, rejected, paused, sms, fmt>>

\* ------------------------------------------------------------ specification
Worker(e) ==
    \/ WFind(e) \/ WIncr(e) \/ WSend(e) \/ WMark(e)
    \/ WCatchFind(e) \/ WCatchMark(e) \/ WComplete(e) \/ WFail(e)

\* A valid request body: type, recipient (for sms: whether it is a phone
\* number isValidPhoneNumber accepts) and priority.
Submit(P) ==
    \E t \in Types, p \in P, ok \in BOOLEAN :
        (t # "sms" => ok) /\ PostCreate(t, p, ok, "unset")

\* One submission (priority left to its default, "medium"), under every
\* operation of the service and of the queue.
Next ==
    \/ Submitted < Submissions /\ Submit({"medium"})
    \/ \E r \in Ids : PostEnqueue(r)
    \/ \E r \in Ids : PostEnqueueFails(r)
    \/ \E r \in Ids : PostSave(r)
    \/ \E r \in Ids : MarkReadFind(r)
    \/ \E r \in Ids : MarkReadSave(r)
    \/ \E r \in Ids : Delete(r)
    \/ \E j \in Ids : Dequeue(j)
    \/ \E j \in Ids : DelayElapsed(j)
    \/ \E j \in Ids, alive \in BOOLEAN : Stalled(j, alive)
    \/ \E j \in Ids : retryFailedJob(j)
    \/ \E e \in exec : Worker(e)

\* Two submissions of any priority, the queue and the workers; no stalls.
NextPair ==
    \/ Submitted < Pair /\ Submit(Priorities)
    \/ \E r \in Ids : PostEnqueue(r)
    \/ \E r \in Ids : PostSave(r)
    \/ \E j \in Ids : Dequeue(j)
    \/ \E j \in Ids : DelayElapsed(j)
    \/ \E e \in exec : Worker(e)

SpecPair == Init /\ [][NextPair]_vars

Spec == Init /\ [][Next]_vars

\* processNotification takes whatever payload the queue holds.  Here the
\* producer's payload type is the record's or one outside the enum, which is
\* the input the default branch of the worker's switch exists for.
PostEnqueueAs(r) == \E t \in {notif[r].type, OtherType} : addToQueue(r, t)

NextForeign ==
    \/ Submitted < Submissions /\ Submit({"medium"})
    \/ \E r \in Ids : PostEnqueueAs(r)
    \/ \E r \in Ids : PostSave(r)
    \/ \E j \in Ids : Dequeue(j)
    \/ \E j \in Ids : DelayElapsed(j)
    \/ \E e \in exec : Worker(e)

SpecForeign == Init /\ [][NextForeign]_vars

\* Two submissions, the queue and the workers, and an operator who pauses
\* and resumes the queue.
NextPause ==
    \/ Submitted < Pair /\ Submit({"medium"})
    \/ \E r \in Ids : PostEnqueue(r)
    \/ \E r \in Ids : PostSave(r)
    \/ \E j \in Ids : Dequeue(j)
    \/ \E j \in Ids : DelayElapsed(j)
    \/ \E e \in exec : Worker(e)
    \/ pauseQueue
    \/ resumeQueue

SpecPause == Init /\ [][NextPause]_vars

\* More jobs than the pool has slots: an operator pauses the queue, a client
\* submits in-app notifications one after the other, the operator resumes
\* the queue when they are all queued, and the workers take them.
NextCrowd ==
    \/ Submitted = 0 /\ pauseQueue
    \/ /\ paused
       /\ \A r \in Ids : hpc[r] \notin {"enqueue", "save"}
       /\ PostCreate("in-app", "medium", TRUE, "unset")
    \/ \E r \in Ids : PostEnqueue(r)
    \/ \E r \in Ids : PostSave(r)
    \/ (\A r \in Ids : hpc[r] = "done") /\ resumeQueue
    \/ \E j \in Ids : Dequeue(j)
    \/ \E e \in exec : Worker(e)

SpecCrowd == Init /\ [][NextCrowd]_vars

\* One in-app submission with any realTime entry in its metadata, the
\* queue and the workers, and a recipient who marks the notification read.
NextInApp ==
    \/ /\ Submitted < Submissions
       /\ \E rt \in {"unset", "true", "false"} : PostCreate("in-app", "medium", TRUE, rt)
    \/ \E r \in Ids : PostEnqueue(r)
    \/ \E r \in Ids : PostSave(r)
    \/ \E r \in Ids : MarkReadFind(r)
    \/ \E r \in Ids : MarkReadSave(r)
    \/ \E j \in Ids : Dequeue(j)
    \/ \E e \in exec : Worker(e)

SpecInApp == Init /\ [][NextInApp]_vars

\* One submission, the queue and the workers of one process, the signals
\* that end the process, and an operator who may call shutdownQueue.
NextShutdown ==
    \/ sys.proc = "running" /\ Submitted < Submissions /\ Submit({"medium"})
    \/ sys.proc # "exited" /\ sys.queue = "open" /\ \E r \in Ids : PostEnqueue(r)
    \/ sys.proc # "exited" /\ \E r \in Ids : PostSave(r)
    \/ sys.proc # "exited" /\ sys.queue = "open" /\ \E j \in Ids : Dequeue(j)
    \/ sys.proc # "exited" /\ sys.queue = "open" /\ \E j \in Ids : DelayElapsed(j)
    \/ sys.proc # "exited" /\ \E e \in exec : Worker(e)
    \/ Sigterm
    \/ Sigint
    \/ ServerClosed
    \/ DbClosed
    \/ shutdownQueue
    \/ QueueClosed
    \/ RedisDisconnect

SpecShutdown == Init /\ [][NextShutdown]_vars

\* One submission, the queue and the workers, over a store whose reads and
\* writes may reject; no stalls.
NextStore ==
    \/ Submitted < Submissions /\ Submit({"medium"})
    \/ \E r \in Ids : PostEnqueue(r)
    \/ \E r \in Ids : PostSave(r)
    \/ \E j \in Ids : Dequeue(j)
    \/ \E j \in Ids : DelayElapsed(j)
    \/ \E e \in exec : Worker(e)
    \/ \E e \in exec : WorkerStoreFails(e)

SpecStore == Init /\ [][NextStore]_vars

\* One submission, the queue and the workers, with an available store, a
\* queue that is never paused and no stall.  The handler goes on to its
\* answer, the queue hands every waiting job to a slot and promotes every
\* delayed job, and every execution of processNotification goes on to its end.
NextLive ==
    \/ Submitted < Submissions /\ Submit({"medium"})
    \/ \E r \in Ids : PostEnqueue(r)
    \/ \E r \in Ids : PostSave(r)
    \/ \E j \in Ids : Dequeue(j)
    \/ \E j \in Ids : DelayElapsed(j)
    \/ \E e \in exec : Worker(e)

SpecLive ==
    /\ Init
    /\ [][NextLive]_vars
    /\ WF_vars(\E r \in Ids : PostEnqueue(r))
    /\ WF_vars(\E r \in Ids : PostSave(r))
    /\ WF_vars(\E j \in Ids : Dequeue(j))
    /\ WF_vars(\E j \in Ids : DelayElapsed(j))
    /\ WF_vars(\E e \in exec : Worker(e))

\* sendSMS called once, with any of the recipients.
NextSms == sendSMS

SpecSms == InitSms /\ [][NextSms]_vars

\* formatSMSMessage called once, with any of the messages and metadata.
NextFormat == formatSMS

SpecFormat == InitFormat /\ [][NextFormat]_vars

\* Submissions of any body, two of them accepted, and the handler's steps.
NextSubmit ==
    \/ \E b \in Bodies : Submitted < Pair /\ PostBody(b)
    \/ \E r \in Ids : PostEnqueue(r)
    \/ \E r \in Ids : PostEnqueueFails(r)
    \/ \E r \in Ids : PostSave(r)

SpecSubmit == Init /\ [][NextSubmit]_vars

\* ------------------------------------------------------------------ claims
\* The executions of job j in progress, and those of them that hold its lock.
ExecsOf(j) == {e \in exec : e.job = j}
LockedExecsOf(j) == {e \in exec : e.job = j /\ e.locked}

\* A step of some execution of processNotification.
WorkerStep == \E e \in exec : Worker(e)

\* C1: in every reachable state, every record has attempts <= maxAttempts.
C1_AttemptsWithinMax ==
    \A r \in Ids : notif[r].exists => notif[r].attempts <= notif[r].maxAttempts

\* C2: once a record's status is sent, no step of an execution of
\* processNotification changes its status.
C2_SentIsFinal ==
    [][\A r \in Ids :
         (notif[r].exists /\ notif[r].status = "sent" /\ WorkerStep)
             => notif'[r].status = "sent"]_vars

\* The order of the lifecycle: pending < queued < processing < {sent, failed}.
Rank(s) ==
    CASE s = "pending" -> 0
      [] s = "queued" -> 1
      [] s = "processing" -> 2
      [] s = "sent" -> 3
      [] s = "failed" -> 3

\* C3: no step moves the status of a record from a later state of the
\* lifecycle to an earlier one.
C3_StatusMonotonic ==
    [][\A r \in Ids :
         (notif[r].exists /\ notif'[r].exists)
             => Rank(notif'[r].status) >= Rank(notif[r].status)]_vars

\* C4: a record whose status is sent or failed has exactly one of sentAt and
\* failedAt set, and no record has both set.
C4_OneTimestamp ==
    \A r \in Ids :
        notif[r].exists =>
            /\ ~(notif[r].sentAt /\ notif[r].failedAt)
            /\ notif[r].status \in {"sent", "failed"}
                  => (notif[r].sentAt \/ notif[r].failedAt)

TransportOnly(r) ==
    \/ job[r].type = "email"
    \/ job[r].type = "sms" /\ smsClient /\ notif[r].recipientOk

\* C6: when the final attempt of a job whose sender raised a transport error
\* on every invocation marks the record, the record has status failed,
\* attempts = maxAttempts, as many sender invocations, failedAt set, and the
\* errorMessage of the last invocation's error.
C6_ExhaustedIsFailedAfterMax ==
    [][\A e \in exec :
         (/\ e.pc = "catchMark"
          /\ e.locked
          /\ WCatchMark(e)
          /\ notif[e.job].exists
          /\ TransportOnly(e.job)
          /\ oks[e.job] = 0)
         => /\ notif'[e.job].status = "failed"
            /\ notif'[e.job].attempts = notif'[e.job].maxAttempts
            /\ sends'[e.job] = notif'[e.job].maxAttempts
            /\ notif'[e.job].failedAt
            /\ notif'[e.job].errorMessage = Err("TransportError", sends'[e.job])]_vars

\* C7: a record whose recipient the SMS sender rejects as an invalid phone
\* number is failed on the first attempt: the sender is invoked once, the job
\* is not rescheduled, and when the job is over the record is failed with
\* attempts = 1.
C7_InvalidPhoneFailsAtOnce ==
    \A r \in Ids :
        (notif[r].exists /\ job[r].type = "sms" /\ smsClient /\ ~notif[r].recipientOk)
            => /\ sends[r] <= 1
               /\ job[r].state # "delayed"
               /\ (sends[r] = 1 /\ job[r].state = "failed")
                     => (notif[r].status = "failed" /\ notif[r].attempts = 1)

\* C8: a job whose type is none of email, sms, in-app invokes no sender, is
\* executed once, is never rescheduled, and does not leave its record in
\* processing.
C8_UnknownTypeFailsAtOnce ==
    \A j \in Ids :
        (job[j].state # "none" /\ job[j].type \notin Types)
            => /\ sends[j] = 0
               /\ runs[j] <= 1
               /\ job[j].state # "delayed"
               /\ (runs[j] = 1 /\ ExecsOf(j) = {} /\ notif[j].exists)
                     => notif[j].status # "processing"

\* C9: the job of an execution that found no record is abandoned: the queue
\* does not put it back (delayed or waiting) when that execution throws.
C9_MissingRecordAbandons ==
    [][\A e \in exec :
         (e.pc = "fail" /\ e.locked /\ e.err.kind = "NotFound" /\ WFail(e))
             => job'[e.job].state \notin {"delayed", "waiting"}]_vars

\* C10: the job handed to a worker has the highest rank, under
\* {low: 1, medium: 2, high: 3}, of the jobs that are waiting.
C10_HighestRankFirst ==
    [][\A j \in Ids :
         (job[j].state = "waiting" /\ job'[j].state = "active")
             => \A k \in Ids :
                   job[k].state = "waiting"
                       => priorityMap(notif[k].priority) <= priorityMap(notif[j].priority)]_vars

\* C11: a job that fails below its budget becomes delayed by
\* base * 2^attemptsMade (base 2000 ms, attemptsMade as it was before this
\* failure, so 2 s, 4 s, 8 s) with attemptsMade incremented, and beyond the
\* budget it becomes failed; the delays of one job strictly increase.
C11_BackoffDoubles ==
    [][\A j \in Ids :
         (job[j].state = "active" /\ job'[j].attemptsMade = job[j].attemptsMade + 1)
             => IF job'[j].attemptsMade < job[j].attempts
                THEN /\ job'[j].state = "delayed"
                     /\ job'[j].delay = BackoffDelay * Pow2(job[j].attemptsMade)
                     /\ job'[j].delay > job[j].delay
                ELSE job'[j].state = "failed"]_vars

\* C12: a job is enqueued only for a record that was persisted; a record's
\* jobId is the id of its job, stored with status queued before the handler
\* answers; and once a send succeeded and its execution is over the record
\* has status sent with sentAt set.
C12_SubmissionThenSent ==
    \A r \in Ids :
        /\ job[r].state # "none" => hpc[r] \in {"save", "done"}
        /\ notif[r].jobId # 0 => (notif[r].jobId = r /\ job[r].state # "none")
        /\ hpc[r] = "done" => (notif[r].jobId = r /\ notif[r].status # "pending")
        /\ (notif[r].exists /\ oks[r] > 0 /\ ExecsOf(r) = {})
              => (notif[r].status = "sent" /\ notif[r].sentAt)

\* C13: every job that is waiting, delayed or active is the job of a record
\* that exists in the store.
C13_JobHasRecord ==
    \A j \in Ids :
        job[j].state \in {"waiting", "delayed", "active"} => notif[j].exists

\* C14: a submission whose addToQueue threw has answered with an error; it
\* has added no job, and its record has no jobId and is never queued: it
\* stays pending (an in-app record can still be marked read).
C14_QueueFailureLeavesPending ==
    \A r \in Ids :
        hpc[r] = "noqueue"
            => /\ job[r].state = "none"
               /\ runs[r] = 0
               /\ notif[r].exists
                     => /\ notif[r].jobId = 0
                        /\ notif[r].status # "queued"
                        /\ notif[r].status = "pending" \/ notif[r].type = "in-app"

C14_Witness ==
    \E r \in Ids :
        hpc[r] = "noqueue" /\ notif[r].exists /\ notif[r].status = "pending"

\* C15: the submission of a malformed body (userId or message missing, type
\* outside the enum, email without subject, email or sms without recipient,
\* priority outside the enum) is answered by a rejection and leaves the store
\* and the queue as they were: no record, no job.  (Every step is such a
\* rejection, or is not the submission of a malformed body.)
C15_MalformedIsRejected ==
    [][LET Malformed(b) ==
               \/ ~b.userId
               \/ ~b.message
               \/ b.type \notin {"email", "sms", "in-app"}
               \/ b.type = "email" /\ ~b.subject
               \/ b.type \in {"email", "sms"} /\ b.recipient = ""
               \/ b.priority \notin {"low", "medium", "high", "absent"}
       IN  \/ rejected' = rejected + 1 /\ UNCHANGED <<notif, job, hpc, exec>>
           \/ \A b \in Bodies : Malformed(b) => ~PostBody(b)]_vars

C15_Witness ==
    /\ rejected > 0
    /\ \E r \in Ids : notif[r].exists /\ job[r].state = "waiting"

\* C16: while the queue is paused no job becomes active; pausing and
\* resuming change no job, no execution and no record; the executions in
\* progress can go on while the queue is paused; and when the queue is not
\* paused, a waiting job can be handed to a free slot.
C16_PauseHoldsDequeue ==
    [][/\ (paused /\ paused')
            => \A j \in Ids : job'[j].state = "active" => job[j].state = "active"
       /\ paused' # paused => UNCHANGED <<job, exec, notif>>
       /\ paused => \A e \in exec : ENABLED Worker(e)
       /\ (~paused /\ Cardinality(exec) < Concurrency
                   /\ \E j \in Ids : job[j].state = "waiting")
            => \E j \in Ids : ENABLED Dequeue(j)]_vars

C16_Witness ==
    /\ paused
    /\ \E j \in Ids : job[j].state = "waiting"
    /\ \E e \in exec : e.pc = "mark"

\* C17: retryFailedJob puts a job back into waiting, answering true, only if
\* the job exists with attemptsMade below its budget; for a job that does not
\* exist or has used up its budget it answers false and changes nothing; and
\* a job that failed by using up its budget stays as it is for good.
C17_RetryWithinBudget ==
    [][\A j \in Ids :
         /\ retryFailedJob(j)
               => /\ job[j].state # "none"
                  /\ job[j].attemptsMade < job[j].attempts
                  /\ retryResult(j) = "true"
                  /\ job'[j].state = "waiting"
         /\ (job[j].state = "none" \/ job[j].attemptsMade >= job[j].attempts)
               => (retryResult(j) = "false" /\ ~ENABLED retryFailedJob(j))
         /\ (job[j].state = "failed" /\ job[j].attemptsMade >= job[j].attempts)
               => job'[j] = job[j]]_vars

C17_Witness ==
    /\ retries > 0
    /\ \E j \in Ids : job[j].state = "failed" /\ job[j].attemptsMade = job[j].attempts

\* C18: a job whose lock expired while it was active is counted a failed
\* attempt: its attemptsMade is incremented, it goes back to waiting, or it
\* becomes failed with its record marked failed.
C18_StallCountsAsFailure ==
    [][\A j \in Ids :
         (job[j].state = "active" /\ job'[j].stalledCount = job[j].stalledCount + 1)
             => /\ job'[j].attemptsMade = job[j].attemptsMade + 1
                /\ job'[j].state \in {"waiting", "failed"}
                /\ (job'[j].state = "failed" /\ notif'[j].exists)
                      => notif'[j].status = "failed"]_vars

\* C19: at most 5 executions of processNotification are in progress, and at
\* most 5 jobs are active, however many jobs are waiting.
C19_AtMostFiveActive ==
    /\ Cardinality(exec) <= 5
    /\ Cardinality({j \in Ids : job[j].state = "active"}) <= 5

C19_Witness ==
    /\ Cardinality(exec) = 5
    /\ Cardinality({j \in Ids : job[j].state = "active"}) = 5
    /\ \E j \in Ids : job[j].state = "waiting"

\* C20: an execution whose in-app broadcast failed goes on to mark the
\* record sent and catches no error, and no broadcast is attempted for a
\* record whose metadata.realTime is false.
C20_BroadcastNeverFailsSend ==
    \A e \in exec :
        /\ e.cast = "false" => (e.pc \in {"mark", "complete"} /\ e.err = NoError)
        /\ (e.pc = "complete" /\ e.cast = "false" /\ notif[e.job].exists)
              => ~notif[e.job].failedAt
        /\ (notif[e.job].exists /\ notif[e.job].realTime = "false") => e.cast = "none"

\* C21: the Redis client is disconnected only after the queue was closed,
\* and the process has not exited leaving a job active unless the queue was
\* closed (by shutdownQueue) first.
C21_ShutdownDrains ==
    /\ sys.redis = "closed" => sys.queue = "closed"
    /\ (sys.proc = "exited" /\ \E j \in Ids : job[j].state = "active")
          => sys.queue = "closed"

\* C22: for every notification, a channel sender returns successfully at
\* most once over the life of its job, when no job stalls.
C22_NoDoubleSend ==
    \A r \in Ids : oks[r] <= 1

\* C23: a record whose job is completed has status sent, and a record whose
\* job is failed with its attempts used up has status failed with an
\* errorMessage.
C23_TerminalJobMatchesRecord ==
    \A j \in Ids :
        notif[j].exists =>
            /\ job[j].state = "completed" => notif[j].status = "sent"
            /\ (job[j].state = "failed" /\ job[j].attemptsMade >= job[j].attempts)
                  => /\ notif[j].status = "failed"
                     /\ notif[j].errorMessage # NoError

\* C24: every record whose job was enqueued is, from some time on, in
\* status sent or failed for good (it does not stay queued or processing
\* forever), and its job is never executed more than maxAttempts times.
C24_EventuallyTerminal ==
    \A r \in Ids :
        /\ [](job[r].state # "none"
                => <>[](notif[r].status \in {"sent", "failed"}))
        /\ [](runs[r] <= DefaultMaxAttempts)

\* C25: whenever an execution is about to invoke (or is invoking) a sender
\* for a record, the record's stored attempts is at least 1 and counts the
\* attempt in progress: it is not less than the attempts this execution
\* wrote before it went on to the sender.
C25_AttemptCountedBeforeSend ==
    \A e \in exec :
        (e.pc = "send" /\ notif[e.job].exists)
            => /\ e.la >= 1
               /\ notif[e.job].attempts >= 1
               /\ notif[e.job].attempts >= e.la

\* C26 as stated: when an execution that failed on an attempt that is not
\* the final one hands its error to the queue, the queue's fail path runs and
\* the record has status processing, with failedAt and errorMessage unset.
C26_NonFinalLeavesProcessing ==
    [][\A e \in exec :
         (/\ e.pc = "fail"
          /\ e \notin exec'
          /\ ~FinalAttempt(e.amade, job[e.job].attempts)
          /\ notif[e.job].exists)
         => /\ job'[e.job] = AfterFailure(job[e.job])
            /\ notif'[e.job].status = "processing"
            /\ ~notif'[e.job].failedAt
            /\ notif'[e.job].errorMessage = NoError]_vars

\* C26 as amended: an execution that caught an error goes on, whatever its
\* reads and writes of the record do, to rethrow that error, and the queue's
\* fail path runs for the job; and on an attempt that is not the final one
\* the catch block leaves the record as it was.
C26_FailureIsRethrown ==
    [][\A e \in exec :
         /\ (e.pc \in {"catchFind", "catchMark"} /\ e \notin exec')
               => \E f \in exec' \ exec :
                     /\ f.job = e.job /\ f.gen = e.gen
                     /\ f.pc \in {"catchMark", "fail"}
                     /\ f.err = e.err
         /\ (e.pc = "catchFind" /\ e \notin exec'
                /\ ~FinalAttempt(e.amade, job[e.job].attempts))
               => (notif' = notif /\ \E f \in exec' \ exec : f.pc = "fail")
         /\ (e.pc = "fail" /\ e.locked /\ e \notin exec')
               => job'[e.job] = AfterFailure(job[e.job])]_vars

\* The case of C26: the last attempt failed, the catch block could not mark
\* the record, and the job is failed all the same.
C26_Witness ==
    \E j \in Ids :
        /\ job[j].state = "failed"
        /\ job[j].attemptsMade = job[j].attempts
        /\ ExecsOf(j) = {}
        /\ hpc[j] = "done"
        /\ notif[j].status = "processing"

\* C27: an execution that finds its record in status sent returns
\* already_sent without holding a modified document; neither that step nor
\* its return invokes a sender or writes the record (attempts, status,
\* sentAt, failedAt and errorMessage keep their values), and an execution
\* that returned already_sent has invoked no sender.
C27_AlreadySentChangesNothing ==
    [][\A e \in exec :
         /\ (e.pc = "find" /\ notif[e.job].exists /\ notif[e.job].status = "sent"
                /\ WFind(e))
               => /\ \E f \in exec' \ exec :
                        f.pc = "complete" /\ f.res = "already_sent" /\ f.la = 0
                  /\ notif' = notif /\ sends' = sends /\ oks' = oks
         /\ (e.res = "already_sent" /\ e \notin exec')
               => (notif' = notif /\ sends' = sends /\ oks' = oks)
         /\ e.res = "already_sent" => (e.pc = "complete" /\ e.la = 0)]_vars

\* The case of C27: an execution returns already_sent for a record that is
\* sent.
C27_Witness ==
    \E e \in exec :
        e.res = "already_sent" /\ notif[e.job].exists /\ notif[e.job].status = "sent"

\* C28: whenever an execution handles a failure, the record's attempts is
\* job.attemptsMade + 1 and its maxAttempts is job.opts.attempts, so that the
\* worker's test of the final attempt on the job agrees with
\* attempts >= maxAttempts on the record.
C28_FinalTestsAgree ==
    \A e \in exec :
        (e.pc = "catchFind" /\ notif[e.job].exists)
            => /\ notif[e.job].attempts = e.amade + 1
               /\ notif[e.job].maxAttempts = job[e.job].attempts
               /\ FinalAttempt(e.amade, job[e.job].attempts)
                     <=> notif[e.job].attempts >= notif[e.job].maxAttempts

\* C29: a record has status sent only if a channel sender was invoked for
\* it and returned successfully.
C29_SentOnlyAfterSend ==
    \A r \in Ids :
        (notif[r].exists /\ notif[r].status = "sent") => oks[r] >= 1

\* C30 as stated: sendSMS calls the transport exactly for the recipients made
\* of "+" followed by 1 to 15 digits whose first is not 0, and fails without
\* calling it for every other.
C30_OneToFifteenDigits ==
    (smsClient /\ sms.result # "none")
        => LET s == sms.recipient IN
           /\ sms.result \in {"create", "InvalidPhone"}
           /\ sms.result = "create"
                 <=> /\ Len(s) \in 2..16
                     /\ s[1] = "+"
                     /\ \A i \in 2..Len(s) : s[i] \in Digits
                     /\ s[2] # "0"

\* C30 as amended: sendSMS calls the transport exactly for the recipients
\* made of "+" followed by 2 to 15 digits whose first is not 0, and fails
\* without calling it for every other.
C30_TwoToFifteenDigits ==
    (smsClient /\ sms.result # "none")
        => LET s == sms.recipient IN
           /\ sms.result \in {"create", "InvalidPhone"}
           /\ sms.result = "create"
                 <=> /\ Len(s) \in 3..16
                     /\ s[1] = "+"
                     /\ \A i \in 2..Len(s) : s[i] \in Digits
                     /\ s[2] # "0"

\* The case of C30: "+" and a single digit is rejected.
C30_Witness ==
    /\ smsClient
    /\ sms.recipient = <<"+", "1">>
    /\ sms.result = "InvalidPhone"

\* C31: the body formatSMSMessage returns has length at most 1600: it is
\* the composed body (optional "senderName: " prefix, message, optional blank
\* line and shortUrl) when that has length at most 1600, and otherwise its
\* first 1597 characters followed by "...", of length exactly 1600.
C31_BodyAtMost1600 ==
    fmt.returned
        => LET prefix == IF fmt.senderName = <<>> THEN <<>>
                         ELSE fmt.senderName \o <<":", " ">>
               suffix == IF fmt.shortUrl = <<>> THEN <<>>
                         ELSE <<"\n", "\n">> \o fmt.shortUrl
               whole == prefix \o fmt.message \o suffix
           IN  /\ Len(fmt.body) <= 1600
               /\ Len(whole) <= 1600 => fmt.body = whole
               /\ Len(whole) > 1600
                     => /\ Len(fmt.body) = 1600
                        /\ \A i \in 1..1597 : fmt.body[i] = whole[i]
                        /\ \A i \in 1598..1600 : fmt.body[i] = "."

\* The case of C31: a message below the limit that its prefix and its
\* shortUrl bring beyond it, returned cut with the marker.
C31_Witness ==
    /\ fmt.returned
    /\ Len(fmt.message) < 1600
    /\ fmt.senderName # <<>>
    /\ fmt.shortUrl # <<>>
    /\ Len(fmt.body) = 1600
    /\ fmt.body[1600] = "."
    /\ fmt.body[1597] # "."

=============================================================================
